---- MODULE Spec2Model ----
(***************************************************************************)
(* The "sma" filter-chain target of collectd (src/target_sma.c): a simple  *)
(* moving average over the last `window' gauge samples of each data        *)
(* source.  The module models the three callbacks the target registers     *)
(* (tsma_create, tsma_invoke, tsma_destroy), the heap blocks they allocate *)
(* and release, and the value list an invocation rewrites in place.        *)
(*                                                                         *)
(* C arrays are functions over 0..n-1.  A pointer is a record              *)
(* [null, id, mem]: id names the heap block, mem is the array it holds.    *)
(* Gauge values are exact rationals [num, den] (the samples fed in are     *)
(* small integers, for which double arithmetic is exact).                  *)
(*                                                                         *)
(* Environment: one data set per behaviour (the value lists handed to one  *)
(* instance share their data set), one construction per behaviour, which   *)
(* comes before the other callbacks (fc_config_add_target), and            *)
(* sstrdup never returns NULL for the non-NULL strings of a configuration  *)
(* (collectd's sstrdup exits the daemon when it is out of memory).         *)
(*                                                                         *)
(* Spec: the callbacks, one call at a time, each call one step.            *)
(* ConfigSpec: tsma_create alone, on a wider set of configuration blocks.  *)
(* ConcSpec: two threads inside tsma_invoke, one statement a step.         *)
(***************************************************************************)
EXTENDS Integers, Sequences, FiniteSets, TLC

\* ------------------------------------------------------------------ bounds
MaxWindow == 2      \* largest Window argument of a configuration
MaxDs == 3          \* largest number of data sources of the data set
MaxChildren == 2    \* largest number of options of a configuration block
MaxCalls == 2       \* invocations that get past the argument checks

\* --------------------------------------------------------- program constants
EINVAL == 22
ENOMEM == 12
FC_TARGET_CONTINUE == 0
DS_TYPE_GAUGE == 1
DS_TYPE_DERIVE == 2
OCONFIG_TYPE_STRING == 0
OCONFIG_TYPE_NUMBER == 1
OCONFIG_TYPE_BOOLEAN == 2

\* ------------------------------------------------------------------ inputs
\* raw samples a value list carries for a gauge (0 is what calloc leaves in
\* a slot) and for a derive
Samples(type) == IF type = DS_TYPE_GAUGE THEN {1, 2} ELSE {3}

\* what a read of window_ptr[] outside the allocated block may yield: an
\* index before, at and after the slot the data source is to write next
Garbage == {-1, 0, 1}

VARIABLES
  ds,         \* the data set: 0 .. ds_num-1 -> [name, type]
  created,    \* tsma_create has been called
  ci,         \* what is remembered of the configuration block tsma_create
              \* was called with (see Digest)
  user_data,  \* *user_data, the instance handle the host keeps
  data,       \* the tsma_data_t the handle points to
  heap,       \* [live: blocks allocated and not freed, brk: blocks ever allocated,
              \*  dfree: a block that is not live was freed]
  nfree,      \* blocks released by the last call
  vl_in,      \* vl->values[] as handed to the last tsma_invoke
  vl,         \* vl->values[] as the last tsma_invoke left them
  args,       \* "null" if the last call was given a NULL argument, else "ok"
  op,         \* the last callback that ran
  ret,        \* its return value
  crashed,    \* "no", or the signal that killed the process: "SIGSEGV" (a
              \* NULL array was indexed), "SIGFPE" (% 0), "SIGABRT" (an access
              \* outside a block, on a build that traps it)
  ub,         \* an access outside an allocated array has happened
  calls,      \* invocations that got past the argument checks
  torn,       \* tsma_destroy has been called on the handle (and not turned away)
  hist,       \* per data source, the last `window' raw samples the live
              \* instance was to average, oldest first, of the invocations
              \* that returned FC_TARGET_CONTINUE (kept for the properties)
  thr         \* the threads of the host that are inside tsma_invoke (see
              \* Quiet): where each of them is, and its locals

vars == <<ds, created, ci, user_data, data, heap, nfree, vl_in, vl, args, op,
          ret, crashed, ub, calls, torn, hist, thr>>

\* ---------------------------------------------------------------- pointers
NULL == [null |-> TRUE, id |-> 0, mem |-> <<>>]

Ptr(id, mem) == [null |-> FALSE, id |-> id, mem |-> mem]

\* n zeroed elements, as calloc returns them
Zeroed(n, zero) == [i \in 0 .. (n - 1) |-> zero]

\* malloc/calloc/realloc/strdup hand out a fresh block
NewId(h) == h.brk + 1

Malloc(h) == [h EXCEPT !.brk = @ + 1, !.live = @ \cup {h.brk + 1}]

\* sfree(p): free(p) for a non-NULL p, then p = NULL
Free(st, p) ==
  IF p.null THEN st
  ELSE IF p.id \in st.heap.live
    THEN [st EXCEPT !.heap.live = @ \ {p.id}, !.nfree = @ + 1]
    ELSE [st EXCEPT !.heap.dfree = TRUE, !.nfree = @ + 1]

\* ------------------------------------------------------------ gauge values
RECURSIVE GCD(_, _)
GCD(a, b) == IF b = 0 THEN a ELSE GCD(b, a % b)

Abs(a) == IF a < 0 THEN -a ELSE a

\* a double holding the integer n
Gauge(n) == [num |-> n, den |-> 1]

NaN == [num |-> 0, den |-> 0]

\* the double a / b for integers a, b (b = 0: NaN or an infinity)
Quot(a, b) ==
  IF b = 0 THEN (IF a = 0 THEN NaN ELSE [num |-> (IF a < 0 THEN -1 ELSE 1), den |-> 0])
  ELSE LET g == GCD(Abs(a), Abs(b))
           s == IF b < 0 THEN -1 ELSE 1
       IN [num |-> s * (a \div g), den |-> s * (b \div g)]

\* window_sum += x
FAdd(x, y) ==
  IF x.den = 0 THEN x ELSE IF y.den = 0 THEN y
  ELSE Quot(x.num * y.den + y.num * x.den, x.den * y.den)

\* window_sum / (double)window
FDiv(x, n) == IF x.den = 0 THEN x ELSE Quot(x.num, x.den * n)

\* (int) of a double: truncation toward zero
Trunc(x) == IF x.num < 0 THEN -((-x.num) \div x.den) ELSE x.num \div x.den

\* a % b of C for b > 0: the remainder has the sign of a
CMod(a, b) == IF a < 0 THEN -((-a) % b) ELSE a % b

\* ----------------------------------------------------------------- strings
\* tolower() of each name the model uses
Lower(s) ==
  CASE s = "Window" -> "window"
    [] s = "WINDOW" -> "window"
    [] s = "DataSource" -> "datasource"
    [] s = "DATASOURCE" -> "datasource"
    [] s = "Interval" -> "interval"
    [] s = "TEMP" -> "temp"
    [] s = "Hum" -> "hum"
    [] OTHER -> s

strcasecmp(a, b) == IF Lower(a) = Lower(b) THEN 0 ELSE 1

\* ----------------------------------------------------------- configuration
\* oconfig_value_t
Str(s) == [type |-> OCONFIG_TYPE_STRING, number |-> Gauge(0), string |-> s]

Num(a, b) == [type |-> OCONFIG_TYPE_NUMBER, number |-> [num |-> a, den |-> b], string |-> ""]

Bool == [type |-> OCONFIG_TYPE_BOOLEAN, number |-> Gauge(0), string |-> ""]

\* the argument lists a Window option is given
WindowValues ==
  {<<Num(w, 1)>> : w \in 0 .. MaxWindow}
    \cup {<<Num(-3, 2)>>, <<Num(2, 1), Num(2, 1)>>, <<Str("2")>>}

\* the argument lists a DataSource option is given
DataSourceValues ==
  {<<Str("TEMP"), Str("rx")>>, <<>>, <<Str("temp"), Bool>>}

\* oconfig_item_t children of the target block
Options ==
  [key : {"Window"}, values : WindowValues]
    \cup [key : {"DATASOURCE"}, values : DataSourceValues]
    \cup [key : {"Interval"}, values : {<<Num(1, 1)>>}]

Configs == UNION {[1 .. n -> Options] : n \in 0 .. MaxChildren}

\* data_source_t of the data set
Sources ==
  {[name |-> "temp", type |-> DS_TYPE_GAUGE],
   [name |-> "Hum", type |-> DS_TYPE_GAUGE],
   [name |-> "rx", type |-> DS_TYPE_DERIVE]}

\* the data sources of a data set have distinct names
DataSets ==
  UNION {{f \in [0 .. (n - 1) -> Sources] :
            \A i, j \in 0 .. (n - 1) : f[i] = f[j] => i = j} : n \in 1 .. MaxDs}

ds_num == Cardinality(DOMAIN ds)

\* ------------------------------------------------------------- tsma_data_t
NoData ==
  [window |-> 0, window_ptr |-> NULL, window_buffer |-> NULL,
   data_sources |-> NULL, data_sources_num |-> 0]

\* the state a callback works on: the handle it is given, the struct behind
\* it, the heap, and the status it returns
Machine ==
  [handle |-> user_data, d |-> data, heap |-> heap, nfree |-> 0, status |-> 0,
   vl |-> vl, crashed |-> "no", ub |-> ub]

\* ------------------------------------------------------ tsma_config_set_int
tsma_config_set_int(st, child) ==
  IF Len(child.values) # 1 \/ child.values[1].type # OCONFIG_TYPE_NUMBER
  THEN [st EXCEPT !.status = -1]
  ELSE [st EXCEPT !.d.window = Trunc(child.values[1].number), !.status = 0]

\* ---------------------------------------------- tsma_config_add_data_source
\* a copy loop that stores the i-th argument in data_sources[i]
RECURSIVE copy_strings_at_i(_, _, _)
copy_strings_at_i(st, values, i) ==
  IF i > Len(values) THEN st
  ELSE LET s == Ptr(NewId(st.heap), values[i].string)
       IN copy_strings_at_i([st EXCEPT !.heap = Malloc(@),
                                       !.d.data_sources.mem[i - 1] = s,
                                       !.d.data_sources_num = @ + 1],
                            values, i + 1)

\* the copy loop: data_sources[data_sources_num++] = sstrdup(values[i].string)
RECURSIVE copy_strings(_, _, _)
copy_strings(st, values, i) ==
  IF i > Len(values) THEN st
  ELSE LET j == st.d.data_sources_num
           s == Ptr(NewId(st.heap), values[i].string)
       IN copy_strings([st EXCEPT !.heap = Malloc(@),
                                  !.d.data_sources.mem[j] = s,
                                  !.d.data_sources_num = @ + 1],
                       values, i + 1)

tsma_config_add_data_source(st, child, oom) ==
  IF Len(child.values) < 1 THEN [st EXCEPT !.status = -1]
  ELSE IF \E i \in 1 .. Len(child.values) : child.values[i].type # OCONFIG_TYPE_STRING
  THEN [st EXCEPT !.status = -1]
  ELSE IF oom THEN [st EXCEPT !.status = -1]
  ELSE LET new_data_sources_num == st.d.data_sources_num + Len(child.values)
           old == st.d.data_sources
           temp == Ptr(IF old.null THEN NewId(st.heap) ELSE old.id,
                       [j \in 0 .. (new_data_sources_num - 1) |->
                          IF j \in DOMAIN old.mem THEN old.mem[j] ELSE NULL])
           s1 == [st EXCEPT !.heap = IF old.null THEN Malloc(@) ELSE @,
                            !.d.data_sources = temp]
       IN [copy_strings(s1, child.values, 1) EXCEPT !.status = 0]

\* ------------------------------------------------------------ tsma_destroy
RECURSIVE free_strings(_, _)
free_strings(st, i) ==
  IF i >= st.d.data_sources_num THEN st
  ELSE free_strings([Free(st, st.d.data_sources.mem[i]) EXCEPT
                        !.d.data_sources.mem[i] = NULL], i + 1)

\* tsma_destroy without the `*user_data = NULL' that ends it
tsma_destroy_keep(st, ud_null) ==
  IF ud_null THEN [st EXCEPT !.status = -EINVAL]
  ELSE LET p == st.handle
           s1 == IF ~p.null /\ ~st.d.data_sources.null
                 THEN LET f == free_strings(st, 0)
                      IN [Free(f, f.d.data_sources) EXCEPT !.d.data_sources = NULL]
                 ELSE st
           s2 == IF ~p.null /\ ~s1.d.window_buffer.null
                 THEN [Free(s1, s1.d.window_buffer) EXCEPT !.d.window_buffer = NULL]
                 ELSE s1
           s3 == IF ~p.null /\ ~s2.d.window_ptr.null
                 THEN [Free(s2, s2.d.window_ptr) EXCEPT !.d.window_ptr = NULL]
                 ELSE s2
       IN [Free(s3, p) EXCEPT !.status = 0]

tsma_destroy(st, ud_null) ==
  IF ud_null THEN [st EXCEPT !.status = -EINVAL]
  ELSE LET p == st.handle
           s1 == IF ~p.null /\ ~st.d.data_sources.null
                 THEN LET f == free_strings(st, 0)
                      IN [Free(f, f.d.data_sources) EXCEPT !.d.data_sources = NULL]
                 ELSE st
           s2 == IF ~p.null /\ ~s1.d.window_buffer.null
                 THEN [Free(s1, s1.d.window_buffer) EXCEPT !.d.window_buffer = NULL]
                 ELSE s1
           s3 == IF ~p.null /\ ~s2.d.window_ptr.null
                 THEN [Free(s2, s2.d.window_ptr) EXCEPT !.d.window_ptr = NULL]
                 ELSE s2
       IN [Free(s3, p) EXCEPT !.handle = NULL, !.status = 0]

\* ------------------------------------------------------------- tsma_create
\* a loop over ci->children that turns down an option it does not understand
RECURSIVE create_loop_strict(_, _, _, _)
create_loop_strict(st, c, i, oom_at) ==
  IF i > Len(c) THEN st
  ELSE LET child == c[i]
           s1 == IF strcasecmp("Window", child.key) = 0
                 THEN tsma_config_set_int(st, child)
                 ELSE IF strcasecmp("DataSource", child.key) = 0
                 THEN tsma_config_add_data_source(st, child, oom_at = i)
                 ELSE [st EXCEPT !.status = -1]
       IN IF s1.status # 0 THEN s1 ELSE create_loop_strict(s1, c, i + 1, oom_at)

\* the loop over ci->children, left at the first non-zero status;
\* oom_at is the child whose realloc fails (0: none)
RECURSIVE create_loop(_, _, _, _)
create_loop(st, c, i, oom_at) ==
  IF i > Len(c) THEN st
  ELSE LET child == c[i]
           s1 == IF strcasecmp("Window", child.key) = 0
                 THEN tsma_config_set_int(st, child)
                 ELSE IF strcasecmp("DataSource", child.key) = 0
                 THEN tsma_config_add_data_source(st, child, oom_at = i)
                 ELSE [st EXCEPT !.status = 0]
       IN IF s1.status # 0 THEN s1 ELSE create_loop(s1, c, i + 1, oom_at)

\* tsma_create that returns the status of a failed option without the
\* tsma_destroy of what was built
tsma_create_leak(st, c, oom_data, oom_at) ==
  IF oom_data THEN [st EXCEPT !.status = -ENOMEM]
  ELSE LET s1 == [st EXCEPT !.heap = Malloc(@),
                            !.handle = Ptr(NewId(st.heap), <<>>),
                            !.d = [NoData EXCEPT !.window = 1],
                            !.status = 0]
           s2 == create_loop(s1, c, 1, oom_at)
       IN IF s2.status # 0
          THEN [s2 EXCEPT !.handle = st.handle, !.d = st.d]
          ELSE s2

tsma_create(st, c, oom_data, oom_at) ==
  IF oom_data THEN [st EXCEPT !.status = -ENOMEM]
  ELSE LET s1 == [st EXCEPT !.heap = Malloc(@),
                            !.handle = Ptr(NewId(st.heap), <<>>),
                            !.d = [NoData EXCEPT !.window = 1],
                            !.status = 0]
           s2 == create_loop(s1, c, 1, oom_at)
       IN IF s2.status # 0
          THEN [tsma_destroy(s2, FALSE) EXCEPT
                  !.handle = st.handle, !.d = st.d, !.status = s2.status]
          ELSE s2

\* ------------------------------------------------------- tsma_invoke_gauge
\* Accesses the C standard leaves undefined are resolved by the build:
\*   g     what a read of window_ptr[dsrc_index] outside the block yields;
\*   trap  "bounds": an access outside a block aborts the process,
\*         "div": an integer division by zero raises SIGFPE,
\*         "none": neither, the store outside a block lands in memory that
\*         is not the target's.
tsma_invoke_gauge(st, dsrc_index, g, trap) ==
  LET window == st.d.window
      window_offset == dsrc_index * window
      wp == st.d.window_ptr
      wb == st.d.window_buffer
      ptr_in == dsrc_index \in DOMAIN wp.mem
      cur == IF ptr_in THEN wp.mem[dsrc_index] ELSE g
      slot == window_offset + cur
      slot_in == slot \in DOMAIN wb.mem
  IN IF wp.null \/ wb.null
     THEN [st EXCEPT !.crashed = "SIGSEGV", !.ub = TRUE]
     ELSE IF (~ptr_in \/ ~slot_in) /\ trap = "bounds"
     THEN [st EXCEPT !.crashed = "SIGABRT", !.ub = TRUE]
     ELSE IF window = 0 /\ trap = "div"
     THEN [st EXCEPT !.crashed = "SIGFPE", !.ub = TRUE]
     ELSE LET \* store new value at pos of oldest
              s1 == IF slot_in
                    THEN [st EXCEPT !.d.window_buffer.mem[slot] = st.vl[dsrc_index],
                                    !.ub = @ \/ ~ptr_in]
                    ELSE [st EXCEPT !.ub = TRUE]
              s2 == IF ptr_in /\ window # 0
                    THEN [s1 EXCEPT !.d.window_ptr.mem[dsrc_index] = CMod(cur + 1, window)]
                    ELSE [s1 EXCEPT !.ub = TRUE]
              \* average of current window
              sum[i \in window_offset .. (window_offset + window)] ==
                IF i = window_offset THEN Gauge(0)
                ELSE FAdd(sum[i - 1], s2.d.window_buffer.mem[i - 1])
              window_sum == IF window <= 0 THEN Gauge(0) ELSE sum[window_offset + window]
          IN [s2 EXCEPT !.vl[dsrc_index] = FDiv(window_sum, window)]

\* ------------------------------------------------------------- tsma_invoke
\* is ds->ds[i].name on the list of data sources?
on_list(d, name) ==
  \E j \in 0 .. (d.data_sources_num - 1) :
    strcasecmp(name, d.data_sources.mem[j].mem) = 0

\* the loop over the data sources of the value list
RECURSIVE invoke_loop(_, _, _, _, _)
invoke_loop(st, dset, i, g, trap) ==
  IF i >= Cardinality(DOMAIN dset) \/ st.crashed # "no" THEN st
  ELSE IF ~st.d.data_sources.null /\ ~on_list(st.d, dset[i].name)
  THEN invoke_loop(st, dset, i + 1, g, trap)
  ELSE IF dset[i].type = DS_TYPE_GAUGE
  THEN invoke_loop(tsma_invoke_gauge(st, i, g[i], trap), dset, i + 1, g, trap)
  ELSE invoke_loop(st, dset, i + 1, g, trap)

\* calloc(nmemb, size): NULL for a size that wrapped around (a negative
\* window) or when the allocator is out of memory; a request of zero bytes
\* gets NULL or a block of no elements
calloc(st, n, zero, oom) ==
  IF n < 0 \/ oom THEN [st |-> st, p |-> NULL]
  ELSE [st |-> [st EXCEPT !.heap = Malloc(@)], p |-> Ptr(NewId(st.heap), Zeroed(n, zero))]

\* the allocation of the buffers by an invocation that finds window_buffer NULL
allocate_buffer(st, n, oom_ptr, oom_buf) ==
  LET a == calloc(st, st.d.window, 0, oom_ptr)
      b == calloc(a.st, n * st.d.window, Gauge(0), oom_buf)
      s1 == [b.st EXCEPT !.d.window_ptr = a.p, !.d.window_buffer = b.p]
  IN IF b.p.null \/ a.p.null
     THEN [s1 EXCEPT !.status = -EINVAL]
     ELSE \* initialize windows to all zero
          [s1 EXCEPT !.d.window_buffer.mem =
                        [i \in DOMAIN @ |-> IF i < n * st.d.window THEN Gauge(0) ELSE @[i]],
                     !.status = 0]

\* tsma_invoke without the check of `data' against NULL
tsma_invoke_unchecked(st, dset, a, oom_ptr, oom_buf, g, trap) ==
  IF a = "ds" \/ a = "vl" \/ a = "ud" THEN [st EXCEPT !.status = -EINVAL]
  ELSE LET s1 == IF st.d.window_buffer.null
                 THEN allocate_buffer(st, Cardinality(DOMAIN dset), oom_ptr, oom_buf)
                 ELSE [st EXCEPT !.status = 0]
       IN IF s1.status # 0 THEN s1
          ELSE [invoke_loop(s1, dset, 0, g, trap) EXCEPT !.status = FC_TARGET_CONTINUE]

tsma_invoke(st, dset, a, oom_ptr, oom_buf, g, trap) ==
  IF a = "ds" \/ a = "vl" \/ a = "ud" THEN [st EXCEPT !.status = -EINVAL]
  ELSE IF st.handle.null THEN [st EXCEPT !.status = -EINVAL]
  ELSE LET s1 == IF st.d.window_buffer.null
                 THEN allocate_buffer(st, Cardinality(DOMAIN dset), oom_ptr, oom_buf)
                 ELSE [st EXCEPT !.status = 0]
       IN IF s1.status # 0 THEN s1
          ELSE [invoke_loop(s1, dset, 0, g, trap) EXCEPT !.status = FC_TARGET_CONTINUE]

\* ------------------------------------------------------------ environment
\* a Window option tsma_config_set_int must turn down
BadWindow(o) ==
  /\ Lower(o.key) = "window"
  /\ \/ Len(o.values) # 1
     \/ \E k \in 1 .. Len(o.values) : o.values[k].type # OCONFIG_TYPE_NUMBER

\* a DataSource option tsma_config_add_data_source must turn down
BadDataSource(o) ==
  /\ Lower(o.key) = "datasource"
  /\ \/ Len(o.values) = 0
     \/ \E k \in 1 .. Len(o.values) : o.values[k].type # OCONFIG_TYPE_STRING

\* what the properties need to know of the configuration block c that
\* tsma_create was called with, and of how the call ended
Digest(c, status) ==
  [invalid |-> \E k \in 1 .. Len(c) : BadWindow(c[k]) \/ BadDataSource(c[k]),
   status |-> status]

\* the data sources the target is configured to average (all, if none is given)
Selected(i) ==
  \/ data.data_sources_num = 0
  \/ \E j \in DOMAIN data.data_sources.mem :
       j < data.data_sources_num
         /\ Lower(data.data_sources.mem[j].mem) = Lower(ds[i].name)

IsGauge(i) == ds[i].type = DS_TYPE_GAUGE

\* data source i has no element of its own in a window_ptr[] of `window' ints
Wild(i) == Selected(i) /\ IsGauge(i) /\ i >= data.window

\* the values a call may read from window_ptr[] outside the block; where
\* window_buffer has no slot at all, every value read leaves the same state
GarbageChoices ==
  {f \in [DOMAIN ds -> Garbage] :
     \A i \in DOMAIN ds : f[i] # 0 => Wild(i) /\ data.window > 0}

\* the value lists the host may hand in
ValueLists ==
  {f \in [DOMAIN ds -> {1, 2, 3}] : \A i \in DOMAIN ds : f[i] \in Samples(ds[i].type)}

\* ----------------------------------------------------------------- actions
\* the threads of the host that call the target
Threads == {1, 2}

\* no thread is inside tsma_invoke.  serial: the host lets one call at a time
\* into the target; done: calls that returned FC_TARGET_CONTINUE; oom: a
\* calloc of tsma_invoke has returned NULL; per thread: pc, the statement it
\* is at, i and cur, its loop index and the cursor it has read, vl, the value
\* list it was called with, and ret, what its last call returned
Quiet ==
  [serial |-> TRUE, done |-> 0, oom |-> FALSE,
   pc |-> [t \in Threads |-> "idle"],
   i |-> [t \in Threads |-> 0],
   cur |-> [t \in Threads |-> 0],
   vl |-> [t \in Threads |-> <<>>],
   ret |-> [t \in Threads |-> 0]]

Init ==
  /\ ds \in DataSets
  /\ created = FALSE
  /\ ci = Digest(<<>>, 0)
  /\ user_data = NULL
  /\ data = NoData
  /\ heap = [live |-> {}, brk |-> 0, dfree |-> FALSE]
  /\ nfree = 0
  /\ vl_in = [i \in DOMAIN ds |-> Gauge(0)]
  /\ vl = [i \in DOMAIN ds |-> Gauge(0)]
  /\ args = "ok"
  /\ op = "none"
  /\ ret = 0
  /\ crashed = "no"
  /\ ub = FALSE
  /\ calls = 0
  /\ torn = FALSE
  /\ hist = [i \in DOMAIN ds |-> <<>>]
  /\ thr = Quiet

\* the host builds the target from its configuration block; oom_data: the
\* calloc of the instance fails; oom_at: the realloc of that child fails
Create ==
  /\ ~created /\ crashed = "no"
  /\ \E c \in Configs, oom_data \in BOOLEAN :
   \E oom_at \in (IF oom_data THEN {0} ELSE 0 .. Len(c)) :
    /\ LET r == tsma_create(Machine, c, oom_data, oom_at)
       IN /\ user_data' = r.handle
          /\ data' = r.d
          /\ heap' = r.heap
          /\ nfree' = r.nfree
          /\ ret' = r.status
          /\ ci' = Digest(c, r.status)
    /\ created' = TRUE
    /\ args' = "ok"
    /\ op' = "create"
    /\ UNCHANGED <<ds, vl_in, vl, crashed, ub, calls, torn, hist, thr>>

\* the host tears the target down
Destroy ==
  \E a \in {"ok", "ud"} :
    /\ created /\ crashed = "no"
    /\ hist' = IF a = "ud" THEN hist ELSE [i \in DOMAIN ds |-> <<>>]
    /\ LET r == tsma_destroy(Machine, a = "ud")
       IN /\ user_data' = r.handle
          \* the struct is gone with the block that held it
          /\ data' = IF r.handle.null THEN NoData ELSE r.d
          /\ heap' = r.heap
          /\ nfree' = r.nfree
          /\ ret' = r.status
    /\ args' = IF a = "ud" THEN "null" ELSE "ok"
    /\ torn' = (torn \/ a = "ok")
    /\ op' = "destroy"
    /\ UNCHANGED <<ds, created, ci, vl_in, vl, crashed, ub, calls, thr>>

\* the last n elements of h
LastN(h, n) ==
  IF Len(h) <= n THEN h
  ELSE [k \in 1 .. (IF n < 0 THEN 0 ELSE n) |-> h[Len(h) - (IF n < 0 THEN 0 ELSE n) + k]]

\* one call of tsma_invoke on the value list `given'
Call(a, given, oom_ptr, oom_buf, g, trap) ==
  LET r == tsma_invoke([Machine EXCEPT !.vl = given], ds, a, oom_ptr, oom_buf, g, trap)
  IN /\ crashed' = r.crashed
     /\ ub' = r.ub
     /\ IF r.crashed # "no"
        THEN \* the process is gone before the call returns
             UNCHANGED <<vl_in, vl, data, heap, nfree, ret, hist>>
        ELSE /\ vl_in' = given
             /\ vl' = r.vl
             /\ data' = r.d
             /\ heap' = r.heap
             /\ nfree' = r.nfree
             /\ ret' = r.status
             /\ hist' = IF r.status = FC_TARGET_CONTINUE
                        THEN [i \in DOMAIN ds |->
                                IF Selected(i) /\ IsGauge(i)
                                THEN LastN(Append(hist[i], given[i].num), data.window)
                                ELSE hist[i]]
                        ELSE hist
     /\ args' = IF a = "ok" THEN "ok" ELSE "null"
     /\ op' = "invoke"
     /\ UNCHANGED <<ds, created, ci, user_data, torn, thr>>

\* the host calls tsma_invoke with a NULL argument or a NULL instance
InvokeRejected ==
  \E a \in {"ds", "vl", "ud"} \cup (IF user_data.null THEN {"ok"} ELSE {}) :
    /\ created /\ crashed = "no"
    /\ Call(a, [i \in DOMAIN ds |-> Gauge(1)], FALSE, FALSE, [i \in DOMAIN ds |-> 0], "none")
    /\ UNCHANGED calls

\* the host passes a value list through the target
InvokeAccepted ==
  \E vals \in ValueLists,
     oom_ptr \in (IF data.window_buffer.null THEN BOOLEAN ELSE {FALSE}),
     oom_buf \in (IF data.window_buffer.null THEN BOOLEAN ELSE {FALSE}),
     g \in GarbageChoices,
     trap \in {"none"} \cup (IF \E i \in DOMAIN ds : Wild(i) THEN {"bounds"} ELSE {})
                       \cup (IF data.window = 0 THEN {"div"} ELSE {}) :
    /\ crashed = "no"
    /\ ~user_data.null
    /\ calls < MaxCalls
    /\ Call("ok", [i \in DOMAIN ds |-> Gauge(vals[i])], oom_ptr, oom_buf, g, trap)
    /\ calls' = calls + 1

Invoke == InvokeRejected \/ InvokeAccepted

Next == Create \/ Invoke \/ Destroy

Spec == Init /\ [][Next]_vars

\* ----------------------------------------------------------- construction
\* The configuration blocks of the specification of tsma_create alone: one
\* option more than Configs, and a second list of names, so that the order
\* of the list of data sources shows.
BlockOptions ==
  Options \cup [key : {"DataSource"}, values : {<<Str("Hum")>>}]

Blocks == UNION {[1 .. n -> BlockOptions] : n \in 0 .. (MaxChildren + 1)}

ConfigInit ==
  /\ Init
  /\ ds = [i \in {0} |-> [name |-> "temp", type |-> DS_TYPE_GAUGE]]

\* tsma_create on block c; all of the call is remembered
CreateFrom ==
  /\ ~created /\ crashed = "no"
  /\ \E c \in Blocks, oom_data \in BOOLEAN :
   \E oom_at \in (IF oom_data THEN {0} ELSE 0 .. Len(c)) :
    /\ LET r == tsma_create(Machine, c, oom_data, oom_at)
       IN /\ user_data' = r.handle
          /\ data' = r.d
          /\ heap' = r.heap
          /\ nfree' = r.nfree
          /\ ret' = r.status
          /\ ci' = [invalid |-> Digest(c, r.status).invalid, status |-> r.status,
                    block |-> c, oom_data |-> oom_data, oom_at |-> oom_at]
    /\ created' = TRUE
    /\ args' = "ok"
    /\ op' = "create"
    /\ UNCHANGED <<ds, vl_in, vl, crashed, ub, calls, torn, hist, thr>>

ConfigSpec == ConfigInit /\ [][CreateFrom]_vars

\* the state tsma_create is called in
Fresh ==
  [handle |-> NULL, d |-> NoData, heap |-> [live |-> {}, brk |-> 0, dfree |-> FALSE],
   nfree |-> 0, status |-> 0, vl |-> vl, crashed |-> "no", ub |-> FALSE]

\* ------------------------------------------------------------ concurrency
\* Two threads of the host call tsma_invoke on one instance.  A step is one
\* statement of tsma_invoke or tsma_invoke_gauge; between the steps of a
\* thread the other may run, unless the host lets one call in at a time.

\* thread t moves to statement pc
Jump(t, pc) == [thr EXCEPT !.pc[t] = pc]

\* the process dies of signal sig
Die(sig) ==
  /\ crashed' = sig
  /\ ub' = TRUE
  /\ UNCHANGED <<data, heap, thr>>

\* an instance built from `Window w', that no call has gone through yet
ConcInit ==
  \E w \in 1 .. MaxWindow, serial \in BOOLEAN :
    /\ ds = [i \in {0} |-> [name |-> "temp", type |-> DS_TYPE_GAUGE]]
    /\ vl_in = [i \in DOMAIN ds |-> Gauge(0)]
    /\ vl = [i \in DOMAIN ds |-> Gauge(0)]
    /\ LET c == <<[key |-> "Window", values |-> <<Num(w, 1)>>]>>
           r == tsma_create(Fresh, c, FALSE, 0)
       IN /\ user_data = r.handle
          /\ data = r.d
          /\ heap = r.heap
          /\ ret = r.status
          /\ ci = Digest(c, r.status)
    /\ created = TRUE
    /\ nfree = 0
    /\ args = "ok"
    /\ op = "create"
    /\ crashed = "no"
    /\ ub = FALSE
    /\ calls = 0
    /\ torn = FALSE
    /\ hist = [i \in DOMAIN ds |-> <<>>]
    /\ thr = [Quiet EXCEPT !.serial = serial]

\* what a step leaves alone besides data, heap, thr, crashed and ub
Rest == <<ds, created, ci, user_data, nfree, vl_in, vl, args, op, ret, torn, hist>>

\* lines 200-207: thread t enters tsma_invoke with a sample of its own
invoke_enter(t) ==
  /\ crashed = "no" /\ thr.pc[t] = "idle"
  /\ calls < MaxCalls
  /\ thr.serial => \A u \in Threads : thr.pc[u] = "idle"
  /\ ~user_data.null
  /\ thr' = [Jump(t, "check") EXCEPT !.vl[t] = [i \in DOMAIN ds |-> Gauge(t)],
                                      !.i[t] = 0]
  /\ calls' = calls + 1
  /\ UNCHANGED <<data, heap, crashed, ub>>
  /\ UNCHANGED Rest

\* line 209: if (data->window_buffer == NULL)
invoke_check(t) ==
  /\ crashed = "no" /\ thr.pc[t] = "check"
  /\ thr' = Jump(t, IF data.window_buffer.null THEN "alloc_ptr" ELSE "loop")
  /\ UNCHANGED <<data, heap, crashed, ub, calls>>
  /\ UNCHANGED Rest

\* line 210: data->window_ptr = calloc(1, data->window * sizeof(int))
invoke_alloc_ptr(t) ==
  /\ crashed = "no" /\ thr.pc[t] = "alloc_ptr"
  /\ \E oom \in BOOLEAN :
       LET a == calloc(Machine, data.window, 0, oom)
       IN /\ data' = [data EXCEPT !.window_ptr = a.p]
          /\ heap' = a.st.heap
          /\ thr' = [Jump(t, "alloc_buf") EXCEPT !.oom = @ \/ a.p.null]
  /\ UNCHANGED <<crashed, ub, calls>>
  /\ UNCHANGED Rest

\* line 211: data->window_buffer = calloc(ds->ds_num, data->window * sizeof(double))
invoke_alloc_buffer(t) ==
  /\ crashed = "no" /\ thr.pc[t] = "alloc_buf"
  /\ \E oom \in BOOLEAN :
       LET b == calloc(Machine, ds_num * data.window, Gauge(0), oom)
       IN /\ data' = [data EXCEPT !.window_buffer = b.p]
          /\ heap' = b.st.heap
          /\ thr' = [Jump(t, "test") EXCEPT !.oom = @ \/ b.p.null]
  /\ UNCHANGED <<crashed, ub, calls>>
  /\ UNCHANGED Rest

\* lines 212-215: return -EINVAL if one of the two is NULL
invoke_test(t) ==
  /\ crashed = "no" /\ thr.pc[t] = "test"
  /\ thr' = IF data.window_buffer.null \/ data.window_ptr.null
            THEN [Jump(t, "idle") EXCEPT !.ret[t] = -EINVAL]
            ELSE Jump(t, "zero")
  /\ UNCHANGED <<data, heap, crashed, ub, calls>>
  /\ UNCHANGED Rest

\* lines 217-219: initialize windows to all zero
invoke_zero(t) ==
  /\ crashed = "no" /\ thr.pc[t] = "zero"
  /\ IF data.window_buffer.null
     THEN Die("SIGSEGV")
     ELSE /\ data' = [data EXCEPT !.window_buffer.mem =
                        [k \in DOMAIN @ |-> IF k < ds_num * data.window THEN Gauge(0) ELSE @[k]]]
          /\ thr' = Jump(t, "loop")
          /\ UNCHANGED <<heap, crashed, ub>>
  /\ UNCHANGED calls
  /\ UNCHANGED Rest

\* lines 222-242: the head of the loop over the data sources, the selection
\* and the dispatch on the type; the return after the last data source
invoke_next(t) ==
  /\ crashed = "no" /\ thr.pc[t] = "loop"
  /\ LET i == thr.i[t]
     IN thr' = IF i >= ds_num
               THEN [Jump(t, "idle") EXCEPT !.ret[t] = FC_TARGET_CONTINUE, !.done = @ + 1]
               ELSE IF ~data.data_sources.null /\ ~on_list(data, ds[i].name)
               THEN [thr EXCEPT !.i[t] = i + 1]
               ELSE IF ds[i].type = DS_TYPE_GAUGE
               THEN Jump(t, "store")
               ELSE [thr EXCEPT !.i[t] = i + 1]
  /\ UNCHANGED <<data, heap, crashed, ub, calls>>
  /\ UNCHANGED Rest

\* line 47: window_buffer[window_offset + window_ptr[dsrc_index]] = the sample
gauge_store(t) ==
  /\ crashed = "no" /\ thr.pc[t] = "store"
  /\ LET i == thr.i[t]
         wp == data.window_ptr
         wb == data.window_buffer
     IN IF wp.null \/ wb.null
        THEN Die("SIGSEGV")
        ELSE IF i \notin DOMAIN wp.mem \/ (i * data.window + wp.mem[i]) \notin DOMAIN wb.mem
        THEN Die("SIGABRT")
        ELSE /\ data' = [data EXCEPT
                          !.window_buffer.mem[i * data.window + wp.mem[i]] = thr.vl[t][i]]
             /\ thr' = Jump(t, "advance")
             /\ UNCHANGED <<heap, crashed, ub>>
  /\ UNCHANGED calls
  /\ UNCHANGED Rest

\* line 48, the right-hand side: window_ptr[dsrc_index] is read
gauge_read_cursor(t) ==
  /\ crashed = "no" /\ thr.pc[t] = "advance"
  /\ LET i == thr.i[t]
     IN IF data.window_ptr.null
        THEN Die("SIGSEGV")
        ELSE IF i \notin DOMAIN data.window_ptr.mem
        THEN Die("SIGABRT")
        ELSE /\ thr' = [Jump(t, "assign") EXCEPT !.cur[t] = data.window_ptr.mem[i]]
             /\ UNCHANGED <<data, heap, crashed, ub>>
  /\ UNCHANGED calls
  /\ UNCHANGED Rest

\* line 48, the assignment: window_ptr[dsrc_index] = (what was read + 1) % window
gauge_write_cursor(t) ==
  /\ crashed = "no" /\ thr.pc[t] = "assign"
  /\ LET i == thr.i[t]
     IN IF data.window_ptr.null
        THEN Die("SIGSEGV")
        ELSE IF i \notin DOMAIN data.window_ptr.mem
        THEN Die("SIGABRT")
        ELSE /\ data' = [data EXCEPT
                          !.window_ptr.mem[i] = CMod(thr.cur[t] + 1, data.window)]
             /\ thr' = [Jump(t, "average") EXCEPT !.cur[t] = 0]
             /\ UNCHANGED <<heap, crashed, ub>>
  /\ UNCHANGED calls
  /\ UNCHANGED Rest

\* lines 50-54: the sum of the window, and the mean written to the value list
gauge_average(t) ==
  /\ crashed = "no" /\ thr.pc[t] = "average"
  /\ LET i == thr.i[t]
         window == data.window
         window_offset == i * window
         wb == data.window_buffer
         sum[k \in window_offset .. (window_offset + window)] ==
           IF k = window_offset THEN Gauge(0) ELSE FAdd(sum[k - 1], wb.mem[k - 1])
     IN IF wb.null
        THEN Die("SIGSEGV")
        ELSE IF \E k \in window_offset .. (window_offset + window - 1) : k \notin DOMAIN wb.mem
        THEN Die("SIGABRT")
        ELSE /\ thr' = [Jump(t, "loop") EXCEPT
                         !.vl[t][i] = FDiv(sum[window_offset + window], window),
                         !.i[t] = i + 1]
             /\ UNCHANGED <<data, heap, crashed, ub>>
  /\ UNCHANGED calls
  /\ UNCHANGED Rest

ConcNext ==
  \E t \in Threads :
    \/ invoke_enter(t)
    \/ invoke_check(t)
    \/ invoke_alloc_ptr(t)
    \/ invoke_alloc_buffer(t)
    \/ invoke_test(t)
    \/ invoke_zero(t)
    \/ invoke_next(t)
    \/ gauge_store(t)
    \/ gauge_read_cursor(t)
    \/ gauge_write_cursor(t)
    \/ gauge_average(t)

ConcSpec == ConcInit /\ [][ConcNext]_vars

\* -------------------------------------------------------------- properties
\* the last call was a tsma_invoke that went through the value list and returned
Ran ==
  op = "invoke" /\ args = "ok" /\ crashed = "no" /\ ret = FC_TARGET_CONTINUE

RECURSIVE SumSeq(_)
SumSeq(h) == IF h = <<>> THEN 0 ELSE Head(h) + SumSeq(Tail(h))

\* the sum of the samples h divided by n
Mean(h, n) == Quot(SumSeq(h), n)

\* the window of data source i: its slots of window_buffer (zero before the
\* buffer exists) and its element of window_ptr
Segment(d, i) ==
  [k \in 0 .. (d.window - 1) |->
     IF (i * d.window + k) \in DOMAIN d.window_buffer.mem
     THEN d.window_buffer.mem[i * d.window + k] ELSE Gauge(0)]

Cursor(d, i) == IF i \in DOMAIN d.window_ptr.mem THEN d.window_ptr.mem[i] ELSE 0

\* C1: once a selected gauge data source of an instance with window N >= 1
\* has been through N or more invocations, the value an invocation writes
\* back is the sum of its last N raw samples divided by N.
SteadyStateMean ==
  \A i \in DOMAIN ds :
    (Ran /\ Selected(i) /\ IsGauge(i) /\ data.window >= 1
         /\ Len(hist[i]) = data.window)
      => vl[i] = Mean(hist[i], data.window)

\* C2: while a selected gauge data source of an instance with window N has
\* been through k < N invocations, the value the k-th writes back is
\* (v_1 + ... + v_k) / N.
ColdStartMean ==
  \A i \in DOMAIN ds :
    (Ran /\ Selected(i) /\ IsGauge(i) /\ Len(hist[i]) >= 1
         /\ Len(hist[i]) < data.window)
      => vl[i] = Mean(hist[i], data.window)

\* C3: an invocation averages every gauge data source the configuration
\* selects (all of them when no DataSource is configured, else those whose
\* name is on the list, ignoring case) and leaves the value, the buffer slots
\* and the cursor of every data source that is not selected as they were.
SelectorFiltering ==
  [][(op' = "invoke" /\ args' = "ok" /\ crashed' = "no" /\ ret' = FC_TARGET_CONTINUE)
       => \A i \in DOMAIN ds :
            /\ (Selected(i) /\ IsGauge(i)) => vl'[i] = Mean(hist'[i], data.window)
            /\ ~Selected(i) => /\ vl'[i] = vl_in'[i]
                               /\ Segment(data', i) = Segment(data, i)
                               /\ Cursor(data', i) = Cursor(data, i)]_vars

\* C4: no invocation changes the value, the buffer slots or the cursor of a
\* data source that is not a gauge.
NonGaugePassThrough ==
  [][(op' = "invoke" /\ crashed' = "no")
       => \A i \in DOMAIN ds :
            ~IsGauge(i) => /\ vl'[i] = vl_in'[i]
                           /\ Segment(data', i) = Segment(data, i)
                           /\ Cursor(data', i) = Cursor(data, i)]_vars

\* C5: after an allocation failure in tsma_invoke no invocation indexes an
\* array that was not allocated: an invocation of a live instance either
\* returns -EINVAL or has both window_ptr and window_buffer allocated.
AllocationErrorHandling ==
  /\ crashed # "SIGSEGV"
  /\ (op = "invoke" /\ args = "ok" /\ crashed = "no" /\ ~user_data.null)
       => \/ ret = -EINVAL
          \/ ~data.window_ptr.null /\ ~data.window_buffer.null

\* C6: every instance tsma_create hands out has window >= 1.
PositiveWindowSize == ~user_data.null => data.window >= 1

\* C7: tsma_create on a block with a malformed Window or DataSource option
\* returns non-zero, leaves *user_data as it was (NULL) and leaves no block
\* allocated.
ConstructionValidation ==
  (created /\ ci.invalid)
    => /\ ci.status # 0
       /\ op = "create" => ret = ci.status
       /\ user_data.null
       /\ heap.live = {}

\* a construction that failed on a malformed option after it had allocated
\* the instance and a list of data sources
ConstructionValidationWitness ==
  op = "create" /\ ci.invalid /\ ret = -1 /\ heap.brk >= 3 /\ heap.live = {}

\* C8: tsma_invoke with a NULL argument, or with *user_data NULL, returns
\* -EINVAL and changes neither the value list nor the instance nor the heap.
InvalidArgument ==
  [][(op' = "invoke" /\ (args' = "null" \/ user_data.null))
       => /\ ret' = -EINVAL
          /\ vl' = vl_in'
          /\ data' = data
          /\ heap' = heap
          /\ user_data' = user_data]_vars

\* an invocation of an instance that was torn down after it had averaged
InvalidArgumentWitness ==
  /\ op = "invoke" /\ args = "ok" /\ ret = -EINVAL
  /\ ci.status = 0 /\ torn /\ user_data.null /\ calls >= 1

\* C9: an invocation with valid arguments on allocated buffers returns
\* FC_TARGET_CONTINUE, and a selected data source that is not a gauge does
\* not keep a selected gauge after it from being averaged.
UnsupportedKindNoAbort ==
  \A i, j \in DOMAIN ds :
    (/\ op = "invoke" /\ args = "ok" /\ ~user_data.null
     /\ ~data.window_ptr.null /\ ~data.window_buffer.null
     /\ i < j
     /\ Selected(i) /\ ~IsGauge(i)
     /\ Selected(j) /\ IsGauge(j))
      => /\ crashed = "no"
         /\ ret = FC_TARGET_CONTINUE
         /\ vl[j] = Mean(hist[j], data.window)

\* C10: tsma_destroy on a handle that was torn down before returns 0, frees
\* no block (none is freed twice) and leaves the handle NULL.
IdempotentTeardown ==
  [][(torn /\ op' = "destroy" /\ args' = "ok")
       => /\ ret' = 0
          /\ nfree' = 0
          /\ heap' = heap
          /\ ~heap'.dfree
          /\ user_data'.null]_vars

\* a second teardown of an instance that was built and had its buffers allocated
IdempotentTeardownWitness ==
  /\ op = "destroy" /\ args = "ok" /\ ret = 0 /\ nfree = 0
  /\ torn /\ ci.status = 0 /\ calls >= 1 /\ heap.brk >= 3

\* C11: after tsma_destroy has run on the handle, whatever the instance went
\* through before (never invoked, buffers allocated, allocations that
\* failed), every block allocated for the instance has been freed, and none
\* was freed twice.
TeardownReleasesEverything ==
  (op = "destroy" /\ args = "ok") => heap.live = {} /\ ~heap.dfree

\* C12: with window = 1 an invocation leaves every value of the value list
\* as it was handed in.
WindowOnePassThrough ==
  (op = "invoke" /\ crashed = "no" /\ ~user_data.null /\ data.window = 1)
    => vl = vl_in

\* the string arguments of the DataSource options of block c, in the order
\* of the block
RECURSIVE Names(_)
Names(c) ==
  IF c = <<>> THEN <<>>
  ELSE IF Lower(Head(c).key) = "datasource"
  THEN [k \in 1 .. Len(Head(c).values) |-> Head(c).values[k].string] \o Names(Tail(c))
  ELSE Names(Tail(c))

\* C13: after a tsma_create that returned 0, data_sources holds the string
\* arguments of all DataSource options of the block, in the order of the
\* block, and data_sources_num is their number.
DataSourceCumulative ==
  (op = "create" /\ ret = 0)
    => LET names == Names(ci.block)
       IN /\ ~user_data.null
          /\ data.data_sources_num = Len(names)
          /\ DOMAIN data.data_sources.mem = 0 .. (Len(names) - 1)
          /\ \A j \in 1 .. Len(names) : data.data_sources.mem[j - 1].mem = names[j]

\* a list built by two DataSource options, of one and of two arguments
DataSourceCumulativeWitness ==
  /\ op = "create" /\ ret = 0 /\ data.data_sources_num = 3
  /\ Len(ci.block) = 2
  /\ data.data_sources.mem[0].mem = "Hum"
  /\ data.data_sources.mem[2].mem = "rx"

\* an option tsma_create understands
Known(o) == strcasecmp("Window", o.key) = 0 \/ strcasecmp("DataSource", o.key) = 0

\* block c without the options tsma_create does not understand, and the
\* place child k of c has in it (0: none)
Strip(c) == SelectSeq(c, Known)

StripIndex(c, k) ==
  IF k = 0 THEN 0
  ELSE IF ~Known(c[k]) THEN 0
  ELSE Cardinality({m \in 1 .. k : Known(c[m])})

\* C14: tsma_create returns for a block what it returns for the block
\* without its options that are neither Window nor DataSource, and builds
\* the same instance (window, list of data sources) from both.
UnrecognizedNonFatal ==
  op = "create"
    => LET plain == tsma_create(Fresh, Strip(ci.block), ci.oom_data,
                                StripIndex(ci.block, ci.oom_at))
       IN /\ ret = plain.status
          /\ user_data = plain.handle
          /\ data = plain.d
          /\ heap.live = plain.heap.live

\* an instance built from a block with an Interval option between a Window
\* and a DataSource option
UnrecognizedNonFatalWitness ==
  /\ op = "create" /\ ret = 0 /\ ~user_data.null
  /\ Len(ci.block) = 3 /\ ~Known(ci.block[2])
  /\ data.window = 2 /\ data.data_sources_num = 2

\* both arrays of the window state are allocated
Initialized(d) == ~d.window_ptr.null /\ ~d.window_buffer.null

\* C15: the arrays tsma_invoke allocates for a window of 1 or more hold, for
\* each of the ds_num data sources of the data set, an element of window_ptr
\* and `window' slots of window_buffer, and no invocation accesses an array
\* outside its block.
CursorStorageSized ==
  (~user_data.null /\ Initialized(data) /\ data.window >= 1)
    => /\ \A i \in DOMAIN ds :
            /\ i \in DOMAIN data.window_ptr.mem
            /\ \A k \in 0 .. (data.window - 1) :
                 (i * data.window + k) \in DOMAIN data.window_buffer.mem
       /\ ~ub

\* C16: an invocation that finds an array of the window state allocated
\* allocates nothing: both arrays stay the blocks they were, of the length
\* they had, and the window stays what it was.
OneShotLazyInit ==
  [][(op' = "invoke" /\ crashed' = "no" /\ ~user_data.null)
       => /\ data'.window = data.window
          /\ ~data.window_ptr.null
               => /\ data'.window_ptr.id = data.window_ptr.id
                  /\ ~data'.window_ptr.null
                  /\ DOMAIN data'.window_ptr.mem = DOMAIN data.window_ptr.mem
          /\ ~data.window_buffer.null
               => /\ data'.window_buffer.id = data.window_buffer.id
                  /\ ~data'.window_buffer.null
                  /\ DOMAIN data'.window_buffer.mem = DOMAIN data.window_buffer.mem
          /\ (~data.window_ptr.null \/ ~data.window_buffer.null)
               => heap'.brk = heap.brk]_vars

\* C17: every data source of an instance whose arrays are allocated has a
\* cursor in 0 .. window-1, and an invocation stores the sample of each
\* selected gauge in the slot its cursor pointed to and moves that cursor on
\* by one modulo window.
CursorInvariant ==
  [][
     /\ (~user_data'.null /\ Initialized(data'))
          => \A i \in DOMAIN ds :
               /\ i \in DOMAIN data'.window_ptr.mem
               /\ data'.window_ptr.mem[i] \in 0 .. (data'.window - 1)
     /\ (op' = "invoke" /\ args' = "ok" /\ crashed' = "no" /\ ret' = FC_TARGET_CONTINUE)
          => \A i \in DOMAIN ds :
               (Selected(i) /\ IsGauge(i))
                 => /\ data.window >= 1
                    /\ Segment(data', i)[Cursor(data, i)] = vl_in'[i]
                    /\ Cursor(data', i) = (Cursor(data, i) + 1) % data.window
    ]_vars

\* C18: an invocation changes, of the slots and the cursor of a data source,
\* only the one slot its own cursor pointed to and its own cursor, and only
\* if it is a selected gauge; the value written back for a data source is
\* the mean of its own last samples (its own input if it is not averaged).
ChannelIndependence ==
  [][(op' = "invoke" /\ args' = "ok" /\ crashed' = "no" /\ ret' = FC_TARGET_CONTINUE)
       => \A j \in DOMAIN ds :
            LET upd == Selected(j) /\ IsGauge(j)
            IN /\ \A k \in 0 .. (data.window - 1) :
                    (~upd \/ k # Cursor(data, j))
                      => Segment(data', j)[k] = Segment(data, j)[k]
               /\ ~upd => Cursor(data', j) = Cursor(data, j)
               /\ vl'[j] = IF upd THEN Mean(hist'[j], data.window) ELSE vl_in'[j]]_vars

\* the blocks the instance points to
Referenced ==
  {p.id : p \in {q \in {user_data, data.window_ptr, data.window_buffer, data.data_sources}
                    : ~q.null}}
    \cup {data.data_sources.mem[j].id : j \in DOMAIN data.data_sources.mem}

\* a block was allocated and is not freed, and nothing points to it
LostBlock == heap.live \ Referenced # {}

\* the samples the window of data source i holds (a sample is not 0)
Held(i) == Cardinality({k \in DOMAIN Segment(data, i) : Segment(data, i)[k] # Gauge(0)})

\* no thread is inside tsma_invoke, and the window of a data source does not
\* hold the samples of the calls that returned FC_TARGET_CONTINUE, or its
\* cursor is not where that many calls leave it
LostSample ==
  /\ \A t \in Threads : thr.pc[t] = "idle"
  /\ crashed = "no" /\ Initialized(data)
  /\ \E i \in DOMAIN ds :
       /\ Selected(i) /\ IsGauge(i)
       /\ \/ Held(i) # (IF thr.done < data.window THEN thr.done ELSE data.window)
          \/ Cursor(data, i) # thr.done % data.window

\* C19: two calls of tsma_invoke that run at the same time on one instance
\* can lose a block allocated by one of them, or a sample, or leave a cursor
\* in the wrong place (ConcurrentCorruption is such a state); while the host
\* lets one call at a time into the target, no such state is reached.
SerialCallsKeepState == thr.serial => ~(LostBlock \/ LostSample)

\* a state two calls that overlap reach without any allocation failing
ConcurrentCorruption ==
  ~thr.serial /\ ~thr.oom /\ thr.done = 2 /\ LostBlock /\ LostSample

====
